---- MODULE Spec2Model ----
(***************************************************************************)
(* Model of the image <-> Base64 conversion service:                       *)
(*   utils/file_utils.py       validators, sanitize_filename,              *)
(*                             generate_unique_filename                    *)
(*   services/image_service.py ImageService.encode_image_to_base64,        *)
(*                             ImageService.decode_base64_to_image         *)
(*   routers/image_routes.py   the two POST handlers                       *)
(*                                                                         *)
(* Text is a sequence of one-character strings, bytes are a sequence of    *)
(* integers 0..255.  Python's None is written per type: None where a       *)
(* record is expected, NoName where a file name is, NoFormat for a format. *)
(***************************************************************************)
EXTENDS Integers, Sequences, FiniteSets, TLC

None == [none |-> TRUE]
NoName == <<"None">>
NoFormat == "None"

(***************************************************************************)
(* Generic sequence helpers (Python str methods and slices).               *)
(***************************************************************************)

\* c * n
Rep(c, n) == [i \in 1..n |-> c]

\* s[:n]
Take(s, n) == SubSeq(s, 1, IF n < Len(s) THEN n ELSE Len(s))

\* s[n:]   (n is a 0-based Python offset)
Drop(s, n) == SubSeq(s, n + 1, Len(s))

\* s.rfind(c) as a 1-based position, 0 when c does not occur
RFind(s, c) ==
  LET hits == {i \in 1..Len(s) : s[i] = c}
  IN  IF hits = {} THEN 0 ELSE CHOOSE i \in hits : \A j \in hits : j <= i

\* c in s
Contains(s, c) == \E i \in 1..Len(s) : s[i] = c

\* str.lower() on ASCII letters
UpperLetters ==
  <<"A", "B", "C", "D", "E", "F", "G", "H", "I", "J", "K", "L", "M",
    "N", "O", "P", "Q", "R", "S", "T", "U", "V", "W", "X", "Y", "Z">>
LowerLetters ==
  <<"a", "b", "c", "d", "e", "f", "g", "h", "i", "j", "k", "l", "m",
    "n", "o", "p", "q", "r", "s", "t", "u", "v", "w", "x", "y", "z">>
LowerChar(c) ==
  IF \E i \in 1..Len(UpperLetters) : UpperLetters[i] = c
  THEN LowerLetters[CHOOSE i \in 1..Len(UpperLetters) : UpperLetters[i] = c]
  ELSE c
Lower(s) == [i \in 1..Len(s) |-> LowerChar(s[i])]

(***************************************************************************)
(* os.path.splitext and pathlib.PurePath name / suffix / stem (POSIX       *)
(* flavour: "/" separates components, "." starts an extension).            *)
(***************************************************************************)

\* os.path.splitext(p): split at the last dot after the last "/", unless only
\* dots precede it in the final component (leading dots are not an extension).
splitext(p) ==
  LET sepIndex == RFind(p, "/")
      dotIndex == RFind(p, ".")
  IN  IF /\ dotIndex > sepIndex
         /\ \E k \in (sepIndex + 1)..(dotIndex - 1) : p[k] # "."
      THEN [name |-> SubSeq(p, 1, dotIndex - 1), ext |-> SubSeq(p, dotIndex, Len(p))]
      ELSE [name |-> p, ext |-> <<>>]

\* PurePath(p).name: the last component that is neither empty nor "."
RECURSIVE PathName(_)
PathName(p) ==
  IF p = <<>> THEN <<>>
  ELSE LET i    == RFind(p, "/")
           last == SubSeq(p, i + 1, Len(p))
       IN  IF last = <<>> \/ last = <<".">>
           THEN (IF i = 0 THEN <<>> ELSE PathName(SubSeq(p, 1, i - 1)))
           ELSE last

\* PurePath(p).suffix
PathSuffix(p) ==
  LET name == PathName(p)
      i    == RFind(name, ".")
  IN  IF 1 < i /\ i < Len(name) THEN SubSeq(name, i, Len(name)) ELSE <<>>

\* PurePath(p).stem
PathStem(p) ==
  LET name == PathName(p)
      i    == RFind(name, ".")
  IN  IF 1 < i /\ i < Len(name) THEN SubSeq(name, 1, i - 1) ELSE name

(***************************************************************************)
(* utils/file_utils.py: sanitize_filename                                  *)
(***************************************************************************)

dangerous_chars == {"<", ">", ":", "\"", "|", "?", "*", "\\", "/"}

\* the length above which a sanitized name is cut, and the length its name
\* part is cut to
SanitizeLimit == 100
NameKeep == 95

\* (mutant) str.replace(char, '_', 1): only the first occurrence of each
\* character is replaced
ReplaceFirstOnly(s) ==
  [i \in 1..Len(s) |->
     IF s[i] \in dangerous_chars /\ ~(\E j \in 1..(i - 1) : s[j] = s[i])
     THEN "_" ELSE s[i]]

\* the loop of str.replace(char, '_') over dangerous_chars
ReplaceDangerous(s) ==
  [i \in 1..Len(s) |-> IF s[i] \in dangerous_chars THEN "_" ELSE s[i]]

\* the length limit: splitext, then name[:95] + ext
LimitLength(sanitized) ==
  IF Len(sanitized) > SanitizeLimit
  THEN LET sp == splitext(sanitized) IN Take(sp.name, NameKeep) \o sp.ext
  ELSE sanitized

\* (mutant) the replacement loop is skipped
sanitize_NoReplace(filename) == LimitLength(filename)

sanitize_filename(filename) == LimitLength(ReplaceDangerous(filename))

(***************************************************************************)
(* base64.b64encode / base64.b64decode (standard alphabet).                *)
(***************************************************************************)

B64Alphabet ==
  <<"A", "B", "C", "D", "E", "F", "G", "H", "I", "J", "K", "L", "M",
    "N", "O", "P", "Q", "R", "S", "T", "U", "V", "W", "X", "Y", "Z",
    "a", "b", "c", "d", "e", "f", "g", "h", "i", "j", "k", "l", "m",
    "n", "o", "p", "q", "r", "s", "t", "u", "v", "w", "x", "y", "z",
    "0", "1", "2", "3", "4", "5", "6", "7", "8", "9", "+", "/">>

B64Pad == "="

\* the character of a 6-bit value
B64Char(v) == B64Alphabet[v + 1]

\* the 6-bit value of a character of the alphabet
B64Value(c) == (CHOOSE i \in 1..Len(B64Alphabet) : B64Alphabet[i] = c) - 1

IsB64Char(c) == \E i \in 1..Len(B64Alphabet) : B64Alphabet[i] = c

\* base64.b64encode(data).decode('utf-8'): every 3 bytes become 4 characters,
\* a final group of 1 or 2 bytes is zero-filled and padded with "="
RECURSIVE b64encode(_)
b64encode(data) ==
  IF data = <<>> THEN <<>>
  ELSE IF Len(data) = 1
  THEN <<B64Char(data[1] \div 4), B64Char((data[1] % 4) * 16), B64Pad, B64Pad>>
  ELSE IF Len(data) = 2
  THEN <<B64Char(data[1] \div 4),
         B64Char((data[1] % 4) * 16 + data[2] \div 16),
         B64Char((data[2] % 16) * 4), B64Pad>>
  ELSE <<B64Char(data[1] \div 4),
         B64Char((data[1] % 4) * 16 + data[2] \div 16),
         B64Char((data[2] % 16) * 4 + data[3] \div 64),
         B64Char(data[3] % 64)>> \o b64encode(Drop(data, 3))

\* binascii.a2b_base64 without strict mode, one character at a time:
\* characters outside the alphabet are skipped, a pad sequence that completes
\* a quad ends the parse, and leftover characters of a quad are an error.
RECURSIVE a2b_base64(_, _, _, _, _, _)
a2b_base64(s, i, quad_pos, leftchar, pads, out) ==
  IF i > Len(s)
  THEN IF quad_pos = 0
       THEN [ok |-> TRUE, data |-> out, exc |-> ""]
       ELSE [ok |-> FALSE, data |-> <<>>,
             exc |-> IF quad_pos = 1 THEN "binascii.Error: Invalid base64-encoded string"
                     ELSE "binascii.Error: Incorrect padding"]
  ELSE IF s[i] = B64Pad
  THEN IF quad_pos >= 2 /\ quad_pos + pads + 1 >= 4
       THEN [ok |-> TRUE, data |-> out, exc |-> ""]
       ELSE a2b_base64(s, i + 1, quad_pos, leftchar,
                       IF quad_pos >= 2 THEN pads + 1 ELSE pads, out)
  ELSE IF ~IsB64Char(s[i])
  THEN a2b_base64(s, i + 1, quad_pos, leftchar, pads, out)
  ELSE LET v == B64Value(s[i])
       IN  CASE quad_pos = 0 -> a2b_base64(s, i + 1, 1, v, 0, out)
             [] quad_pos = 1 ->
                  a2b_base64(s, i + 1, 2, v % 16, 0,
                             Append(out, leftchar * 4 + v \div 16))
             [] quad_pos = 2 ->
                  a2b_base64(s, i + 1, 3, v % 4, 0,
                             Append(out, leftchar * 16 + v \div 4))
             [] quad_pos = 3 ->
                  a2b_base64(s, i + 1, 0, 0, 0, Append(out, leftchar * 64 + v))

\* base64.b64decode(s): [ok, data, exc]
b64decode(s) == a2b_base64(s, 1, 0, 0, 0, <<>>)

(***************************************************************************)
(* The image codec (PIL), as the service uses it.  Image.open identifies   *)
(* the format from the leading bytes; Image.verify checks the structure of *)
(* the rest, which the model's short byte strings do not carry: whether    *)
(* the body is intact is an input of each request.                         *)
(***************************************************************************)

\* leading bytes: 0x89 PNG, 0xFF JPEG, "8" PSD (readable, no writer),
\* 0x00 ICO (readable and writable, not in the extension table)
ImageFormat(data) ==
  IF data = <<>> THEN NoFormat
  ELSE CASE data[1] = 137 -> "PNG"
         [] data[1] = 255 -> "JPEG"
         [] data[1] = 56  -> "PSD"
         [] data[1] = 0   -> "ICO"
         [] OTHER         -> NoFormat

\* Image.open(io.BytesIO(data)) followed by image.verify()
OpenAndVerify(data, intact) ==
  IF ImageFormat(data) = NoFormat
  THEN [ok |-> FALSE, exc |-> "UnidentifiedImageError: cannot identify image file"]
  ELSE IF ~intact
  THEN [ok |-> FALSE, exc |-> "SyntaxError: broken image file"]
  ELSE [ok |-> TRUE, exc |-> ""]

(***************************************************************************)
(* utils/file_utils.py: validators                                         *)
(***************************************************************************)

allowed_extensions ==
  {<<".", "j", "p", "g">>, <<".", "j", "p", "e", "g">>, <<".", "p", "n", "g">>,
   <<".", "g", "i", "f">>, <<".", "b", "m", "p">>, <<".", "t", "i", "f", "f">>}

\* an error message: its fixed text and the exception text embedded in it
Message(text, exc) == [text |-> text, exc |-> exc]

\* validate_image_file(file_content, filename) -> (is_valid, error_message)
validate_image_file(file_content, filename, intact) ==
  IF Lower(PathSuffix(filename)) \notin allowed_extensions
  THEN [valid |-> FALSE,
        error |-> Message("Unsupported file format. Allowed formats: ", "")]
  ELSE LET img == OpenAndVerify(file_content, intact)
       IN  IF img.ok THEN [valid |-> TRUE, error |-> None]
           ELSE [valid |-> FALSE,
                 error |-> Message("Invalid image file: ", img.exc)]

\* validate_base64_string(base64_string) -> (is_valid, error_message)
validate_base64_string(base64_string, intact) ==
  LET dec == b64decode(base64_string)
      img == OpenAndVerify(dec.data, intact)
  IN  IF ~dec.ok
      THEN [valid |-> FALSE,
            error |-> Message("Invalid Base64 string or not a valid image: ", dec.exc)]
      ELSE IF ~img.ok
      THEN [valid |-> FALSE,
            error |-> Message("Invalid Base64 string or not a valid image: ", img.exc)]
      ELSE [valid |-> TRUE, error |-> None]

(***************************************************************************)
(* services/image_service.py: ImageService.encode_image_to_base64          *)
(***************************************************************************)

\* (mutant) file_size reports the length of the Base64 text
encode_SizeOfText(file_content, filename, intact) ==
  IF filename = NoName
  THEN [success |-> FALSE,
        error |-> Message("Error encoding image to Base64: ", "TypeError"),
        data |-> None]
  ELSE LET v == validate_image_file(file_content, filename, intact)
       IN  IF ~v.valid
           THEN [success |-> FALSE, error |-> v.error, data |-> None]
           ELSE [success |-> TRUE, error |-> None,
                 data |-> [base64_string |-> b64encode(file_content),
                           original_filename |-> filename,
                           file_size |-> Len(b64encode(file_content))]]

\* (success, error_message, result_data).  A filename of None makes
\* Path(filename) raise inside validate_image_file, outside its own try:
\* the service's except clause turns that into a failure result.
encode_image_to_base64(file_content, filename, intact) ==
  IF filename = NoName
  THEN [success |-> FALSE,
        error |-> Message("Error encoding image to Base64: ", "TypeError"),
        data |-> None]
  ELSE LET v == validate_image_file(file_content, filename, intact)
       IN  IF ~v.valid
           THEN [success |-> FALSE, error |-> v.error, data |-> None]
           ELSE [success |-> TRUE, error |-> None,
                 data |-> [base64_string |-> b64encode(file_content),
                           original_filename |-> filename,
                           file_size |-> Len(file_content)]]

(***************************************************************************)
(* utils/file_utils.py: generate_unique_filename                           *)
(***************************************************************************)

\* the length of the random identifier, str(uuid.uuid4())[:8]
UniqueIdLen == 8

\* (mutant) the identifier is left out of the name
generate_NoId(original_filename, extension, unique_id) ==
  LET ext == IF extension = NoName THEN PathSuffix(original_filename) ELSE extension
  IN  PathStem(original_filename) \o ext

\* (mutant) the extension argument is ignored: the name keeps its own suffix
generate_KeepSuffix(original_filename, extension, unique_id) ==
  PathStem(original_filename) \o <<"_">> \o unique_id \o PathSuffix(original_filename)

\* generate_unique_filename(original_filename, extension): unique_id is the
\* identifier this call drew
generate_unique_filename(original_filename, extension, unique_id) ==
  LET ext == IF extension = NoName THEN PathSuffix(original_filename) ELSE extension
  IN  PathStem(original_filename) \o <<"_">> \o unique_id \o ext

(***************************************************************************)
(* services/image_service.py: ImageService.decode_base64_to_image          *)
(***************************************************************************)

outputs_dir == <<"o", "u", "t", "p", "u", "t", "s">>

\* self.outputs_dir / unique_filename: an absolute right-hand side replaces
\* the directory
PathJoin(dir, name) ==
  IF name # <<>> /\ name[1] = "/" THEN name ELSE dir \o <<"/">> \o name

\* _get_extension_from_format(format_name)
get_extension_from_format(format_name) ==
  CASE format_name = "JPEG" -> <<".", "j", "p", "g">>
    [] format_name = "PNG"  -> <<".", "p", "n", "g">>
    [] format_name = "GIF"  -> <<".", "g", "i", "f">>
    [] format_name = "BMP"  -> <<".", "b", "m", "p">>
    [] format_name = "TIFF" -> <<".", "t", "i", "f", "f">>
    [] format_name = "WEBP" -> <<".", "w", "e", "b", "p">>
    [] OTHER                -> <<".", "p", "n", "g">>

\* formats the codec can read but has no writer for
ReadOnlyFormats == {"PSD"}

\* the file name decode settles on before it is sanitized (lines 89-95)
ResolveFilename(filename, format_extension) ==
  IF filename = NoName \/ filename = <<>>
  THEN <<"d", "e", "c", "o", "d", "e", "d", "_", "i", "m", "a", "g", "e">>
         \o format_extension
  ELSE IF PathSuffix(filename) = <<>>
  THEN filename \o format_extension
  ELSE filename

\* how image.save(file_path, format=image.format) can end:
\*   "ok"           the file is written (created, or an existing one replaced)
\*   "no_writer"    the format has no save handler: KeyError before the file
\*                  is opened
\*   "open_error"   the file cannot be opened for writing; nothing is created
\*   "write_error_removed", "write_error_left"
\*                  the writer fails after the file was opened (and so
\*                  created or truncated); the codec library then removes
\*                  the file it created, or leaves it, depending on its
\*                  version and on whether the removal is permitted
SaveOutcomes(format) ==
  IF format \in ReadOnlyFormats THEN {"no_writer"}
  ELSE {"ok", "open_error", "write_error_removed", "write_error_left"}

\* (mutant) the except clause returns no message
DecodeError_NoMessage(exc) == [success |-> FALSE, error |-> None, data |-> None]

\* the failure the except clause of decode_base64_to_image returns
DecodeError(exc) ==
  [success |-> FALSE,
   error |-> Message("Error decoding Base64 to image: ", exc),
   data |-> None]

\* the path decode writes to for a request that passed validation
DecodeTarget(base64_string, filename, unique_id) ==
  LET format_extension ==
        get_extension_from_format(ImageFormat(b64decode(base64_string).data))
      sanitized == sanitize_filename(ResolveFilename(filename, format_extension))
  IN  generate_unique_filename(sanitized, format_extension, unique_id)

\* decode_base64_to_image(base64_string, filename) on the output directory
\* holding `dir`; unique_id and save_outcome are what uuid4 and image.save
\* produce in this call.  Returns the (success, error, data) result, the
\* directory afterwards and how the call ended:
\*   via "validation" (line 80), "exception" (line 119) or "ok" (line 116).
decode_base64_to_image(base64_string, filename, intact, unique_id, save_outcome, dir) ==
  LET v == validate_base64_string(base64_string, intact)
      format == ImageFormat(b64decode(base64_string).data)
      unique_filename == DecodeTarget(base64_string, filename, unique_id)
      file_path == PathJoin(outputs_dir, unique_filename)
  IN  IF ~v.valid
      THEN [result |-> [success |-> FALSE, error |-> v.error, data |-> None],
            dir |-> dir, via |-> "validation"]
      ELSE IF save_outcome = "no_writer"
      THEN [result |-> DecodeError("KeyError"), dir |-> dir, via |-> "exception"]
      ELSE IF save_outcome = "open_error"
      THEN [result |-> DecodeError("OSError: cannot open file"),
            dir |-> dir, via |-> "exception"]
      ELSE IF save_outcome = "write_error_removed"
      THEN [result |-> DecodeError("OSError: cannot write file"),
            dir |-> dir, via |-> "exception"]
      ELSE IF save_outcome = "write_error_left"
      THEN [result |-> DecodeError("OSError: cannot write file"),
            dir |-> dir \cup {file_path}, via |-> "exception"]
      ELSE [result |->
              [success |-> TRUE, error |-> None,
               data |-> [message |-> "Image successfully decoded and saved",
                         file_path |-> file_path,
                         filename |-> unique_filename]],
            dir |-> dir \cup {file_path}, via |-> "ok"]

(***************************************************************************)
(* routers/image_routes.py: POST /api/v1/decode-base64                     *)
(***************************************************************************)

HTTP_200_OK == 200
HTTP_400_BAD_REQUEST == 400
HTTP_413_REQUEST_ENTITY_TOO_LARGE == 413
HTTP_500_INTERNAL_SERVER_ERROR == 500

\* the response the handler builds from the service's result: the service
\* catches every exception itself, so the handler's own except clause
\* (status 500) is never entered on this path
decode_route_response(r) ==
  IF ~r.success
  THEN [status |-> HTTP_400_BAD_REQUEST, detail |-> r.error, body |-> None]
  ELSE [status |-> HTTP_200_OK, detail |-> None, body |-> r.data]

(***************************************************************************)
(* routers/image_routes.py: POST /api/v1/encode-image                      *)
(***************************************************************************)

\* max_size = 10 * 1024 * 1024
max_size == 10485760

\* (mutant) the size check rejects a body of exactly max_size
encode_route_SizeAtLeast(read_ok, size, r) ==
  IF ~read_ok
  THEN [response |-> [status |-> HTTP_500_INTERNAL_SERVER_ERROR,
                      detail |-> Message("Internal server error: ", "OSError: read failed"),
                      body |-> None],
        invoked |-> FALSE]
  ELSE IF size >= max_size
  THEN [response |-> [status |-> HTTP_413_REQUEST_ENTITY_TOO_LARGE,
                      detail |-> Message("File too large. Maximum size is 10.0MB", ""),
                      body |-> None],
        invoked |-> FALSE]
  ELSE IF ~r.success
  THEN [response |-> [status |-> HTTP_400_BAD_REQUEST, detail |-> r.error, body |-> None],
        invoked |-> TRUE]
  ELSE [response |-> [status |-> HTTP_200_OK, detail |-> None, body |-> r.data],
        invoked |-> TRUE]

\* the handler, given whether file.read() succeeded, len(file_content) and
\* the result r the service returns for the content when it is called:
\* the response, and whether image_service.encode_image_to_base64 was called
encode_route(read_ok, size, r) ==
  IF ~read_ok
  THEN [response |-> [status |-> HTTP_500_INTERNAL_SERVER_ERROR,
                      detail |-> Message("Internal server error: ", "OSError: read failed"),
                      body |-> None],
        invoked |-> FALSE]
  ELSE IF size > max_size
  THEN [response |-> [status |-> HTTP_413_REQUEST_ENTITY_TOO_LARGE,
                      detail |-> Message("File too large. Maximum size is 10.0MB", ""),
                      body |-> None],
        invoked |-> FALSE]
  ELSE IF ~r.success
  THEN [response |-> [status |-> HTTP_400_BAD_REQUEST, detail |-> r.error, body |-> None],
        invoked |-> TRUE]
  ELSE [response |-> [status |-> HTTP_200_OK, detail |-> None, body |-> r.data],
        invoked |-> TRUE]

(***************************************************************************)
(* State.                                                                  *)
(*   san_in, san_out : a file name and the results of applying             *)
(*                     sanitize_filename to it once, then to its result    *)
(*   upload          : the encode call under way: file_content, filename   *)
(*                     and whether the codec finds the body intact         *)
(*   result          : the (success, error, data) tuple the service        *)
(*                     returned last, NoResult before any call             *)
(*   files           : the paths of the files in the output directory      *)
(*   response        : the HTTP response sent last                         *)
(*   req             : the decode request handled last                     *)
(*   call            : what the last handler did: which operation, how the *)
(*                     service call ended (via), the format the codec      *)
(*                     found, whether the written path existed before      *)
(*                     (existed), whether the identifier drawn occurs in   *)
(*                     no earlier file name (fresh), whether the set of    *)
(*                     files changed (changed), whether the handler called *)
(*                     the service (invoked)                               *)
(*   body            : an upload given by the size of its content only     *)
(*                     (with its file name and whether the content is an   *)
(*                     image), for contents too long to write out          *)
(***************************************************************************)
VARIABLES san_in, san_out, upload, result, files, response, req, call, body

vars == <<san_in, san_out, upload, result, files, response, req, call, body>>

NoResult == [success |-> FALSE, error |-> None, data |-> None, pending |-> TRUE]
NoUpload == [content |-> <<>>, filename |-> NoName, intact |-> FALSE]
NoResponse == [status |-> 0, detail |-> None, body |-> None]
NoReq == [base64_string |-> <<>>, filename |-> NoName]
NoCall ==
  [op |-> "none", via |-> "none", format |-> NoFormat,
   existed |-> FALSE, fresh |-> FALSE, changed |-> FALSE, invoked |-> FALSE]
NoBody == [size |-> 0, filename |-> NoName, is_image |-> FALSE]

\* the part of the state a specification does not use, at rest
IdleSanitize == san_in = <<>> /\ san_out = <<>>
IdleService ==
  /\ body = NoBody
  /\ files = {}
  /\ response = NoResponse
  /\ req = NoReq
  /\ call = NoCall

(***************************************************************************)
(* SpecSanitize: sanitize_filename applied to a file name and re-applied   *)
(* to its own result.                                                      *)
(***************************************************************************)

\* how far around the two length constants the run lengths of the input
\* names reach
LenSlack == 1

\* how many times sanitize_filename is applied in a row
MaxApply == 2

FillChars == dangerous_chars \cup {".", "a"}
FillLens  == {0, 1} \cup ((NameKeep - LenSlack)..(SanitizeLimit + LenSlack))
NamePre   == {<<>>, <<"a">>, <<".", ".", "/">>, <<"C", ":", "\\">>}
NameMid   == {<<>>, <<"a">>, <<"?">>}
NameExts  ==
  {<<>>, <<".">>, <<".", "p", "n", "g">>, <<".", "j", "/", "g">>,
   <<".", "a", "b", "c", "d", "e", "f", "g", "h">>}

\* the file names sanitize_filename is applied to: a short prefix, a run of
\* one character, a short middle, an extension
SanInputs ==
  {pre \o Rep(f, n) \o mid \o ext :
     pre \in NamePre, f \in FillChars, n \in FillLens,
     mid \in NameMid, ext \in NameExts}

InitSanitize ==
  /\ san_in \in SanInputs
  /\ san_out = <<>>
  /\ upload = NoUpload
  /\ result = NoResult
  /\ IdleService

\* one call of sanitize_filename, on the input or on the previous result
Sanitize ==
  /\ Len(san_out) < MaxApply
  /\ san_out' = Append(san_out,
                       sanitize_filename(IF san_out = <<>> THEN san_in
                                         ELSE san_out[Len(san_out)]))
  /\ UNCHANGED <<san_in, upload, result, files, response, req, call, body>>

NextSanitize == Sanitize

SpecSanitize == InitSanitize /\ [][NextSanitize]_vars

(***************************************************************************)
(* SpecEncode: one call of ImageService.encode_image_to_base64 on an       *)
(* upload.  The call writes nothing to disk.                               *)
(***************************************************************************)

\* the longest file content of an upload
MaxContentLen == 3

\* byte values of file contents: "A" (no image magic), 0x89 (PNG), 0xFF (JPEG)
ByteValues == {65, 137, 255}

RECURSIVE BytesUpTo(_)
BytesUpTo(n) ==
  IF n = 0 THEN {<<>>}
  ELSE LET shorter == BytesUpTo(n - 1)
       IN  shorter \cup {Append(b, v) : b \in {c \in shorter : Len(c) = n - 1},
                                        v \in ByteValues}

Contents == BytesUpTo(MaxContentLen)

UploadNames ==
  {NoName, <<>>, <<"a">>, <<"a", ".", "p", "n", "g">>, <<"A", ".", "P", "N", "G">>,
   <<"a", ".", "j", "p", "e", "g">>, <<"a", ".", "w", "e", "b", "p">>,
   <<"a", ".", "p", "n", "g", "/", "b">>}

Uploads == [content : Contents, filename : UploadNames, intact : BOOLEAN]

InitEncode ==
  /\ upload \in Uploads
  /\ result = NoResult
  /\ IdleSanitize
  /\ IdleService

\* the call of encode_image_to_base64(file_content, filename)
EncodeStored ==
  /\ result = NoResult
  /\ result' = encode_image_to_base64(upload.content, upload.filename, upload.intact)
  /\ UNCHANGED <<san_in, san_out, upload, files, response, req, call, body>>

NextEncode == EncodeStored

SpecEncode == InitEncode /\ [][NextEncode]_vars

(***************************************************************************)
(* Spec: the service behind its two POST handlers, sharing the output      *)
(* directory.  Each handler runs to completion before the next starts:     *)
(* neither awaits between reading its request and returning.               *)
(***************************************************************************)

\* decode requests are taken while the output directory holds fewer files
MaxFiles == 2

\* Base64 texts of decode requests: a PNG, a PSD (a format without a
\* writer), bytes that are no image, and a text with incorrect padding
DecodeStrings ==
  {b64encode(<<137, 65>>), b64encode(<<56, 66>>), b64encode(<<65>>),
   <<"i", "Q", "=">>}

\* file names of decode requests: none, without a suffix, with a suffix
\* other than the image's, with directory parts and a backslash
DecodeNames ==
  {NoName, <<"p">>, <<"p", ".", "j", "p", "g">>,
   <<".", ".", "/", "p", "\\", "q">>}

\* the identifiers uuid4 can draw
UniqueIds == {Rep("0", UniqueIdLen), Rep("f", UniqueIdLen)}
NoId == <<>>

\* uploads of encode requests
RequestUploads ==
  [content : {<<65>>, <<137, 65>>},
   filename : {NoName, <<"a", ".", "p", "n", "g">>, <<"a", ".", "w", "e", "b", "p">>},
   intact : BOOLEAN]

\* the identifier in a file name this service wrote: the characters before
\* its extension
IdOf(path) ==
  LET stem == PathStem(path)
  IN  IF Len(stem) < UniqueIdLen THEN NoId
      ELSE SubSeq(stem, Len(stem) - UniqueIdLen + 1, Len(stem))

Init ==
  /\ IdleSanitize
  /\ upload = NoUpload
  /\ result = NoResult
  /\ IdleService

\* how an encode request ended: the read failed, the size check refused it,
\* or the service returned via validation (line 48), its except clause
\* (line 63) or success (line 60)
EncodeVia(read_ok, h, r) ==
  IF ~read_ok THEN "read_error"
  ELSE IF ~h.invoked THEN "too_large"
  ELSE IF r.success THEN "ok"
  ELSE IF r.error.text = "Error encoding image to Base64: " THEN "exception"
  ELSE "validation"

\* POST /api/v1/encode-image
EncodeRequest ==
  \E up \in RequestUploads, read_ok \in BOOLEAN :
    LET r == encode_image_to_base64(up.content, up.filename, up.intact)
        h == encode_route(read_ok, Len(up.content), r)
    IN  /\ result' = IF h.invoked THEN r ELSE result
        /\ response' = h.response
        /\ req' = NoReq
        /\ call' = [NoCall EXCEPT !.op = "encode", !.invoked = h.invoked,
                                  !.via = EncodeVia(read_ok, h, r)]
        /\ UNCHANGED <<san_in, san_out, upload, files, body>>

\* POST /api/v1/decode-base64.  uuid4 is drawn and image.save is called only
\* once the request has passed validation.
DecodeRequest ==
  /\ Cardinality(files) < MaxFiles
  /\ \E base64_string \in DecodeStrings, filename \in DecodeNames, intact \in BOOLEAN :
       LET valid  == validate_base64_string(base64_string, intact).valid
           format == ImageFormat(b64decode(base64_string).data)
       IN  \E unique_id \in (IF valid THEN UniqueIds ELSE {NoId}),
              save_outcome \in (IF valid THEN SaveOutcomes(format) ELSE {"not_called"}) :
             LET d == decode_base64_to_image(base64_string, filename, intact,
                                             unique_id, save_outcome, files)
                 target == PathJoin(outputs_dir,
                                    DecodeTarget(base64_string, filename, unique_id))
             IN  /\ result' = d.result
                 /\ files' = d.dir
                 /\ response' = decode_route_response(d.result)
                 /\ req' = [base64_string |-> base64_string, filename |-> filename]
                 /\ call' = [op |-> "decode", via |-> d.via, format |-> format,
                             existed |-> valid /\ target \in files,
                             fresh |-> valid /\ \A f \in files : IdOf(f) # unique_id,
                             changed |-> d.dir # files, invoked |-> TRUE]
                 /\ UNCHANGED <<san_in, san_out, upload, body>>

Next == DecodeRequest \/ EncodeRequest

Spec == Init /\ [][Next]_vars

(***************************************************************************)
(* SpecUpload: POST /api/v1/encode-image on uploads around the size limit. *)
(* A content of 10 MB is not written out byte by byte: the upload is given *)
(* by len(file_content), its file name and whether the codec accepts the   *)
(* content, and the Base64 text by its length.                             *)
(***************************************************************************)

\* how far around max_size the content sizes reach
SizeSlack == 2

BodySizes ==
  {0, 1, 2048, 11 * 1024 * 1024}
    \cup ((max_size - SizeSlack)..(max_size + SizeSlack))

Bodies ==
  [size : BodySizes,
   filename : {NoName, <<"c", "a", "t", ".", "p", "n", "g">>,
               <<"n", "o", "t", "e", "s", ".", "t", "x", "t">>},
   is_image : BOOLEAN]

\* encode_image_to_base64 on a content of `size` bytes: the same three
\* returns, with base64_string given by its length 4 * ceil(size / 3)
encode_sized(size, filename, is_image) ==
  IF filename = NoName
  THEN [success |-> FALSE,
        error |-> Message("Error encoding image to Base64: ", "TypeError"),
        data |-> None]
  ELSE IF Lower(PathSuffix(filename)) \notin allowed_extensions
  THEN [success |-> FALSE,
        error |-> Message("Unsupported file format. Allowed formats: ", ""),
        data |-> None]
  ELSE IF ~is_image
  THEN [success |-> FALSE,
        error |-> Message("Invalid image file: ",
                          "UnidentifiedImageError: cannot identify image file"),
        data |-> None]
  ELSE [success |-> TRUE, error |-> None,
        data |-> [base64_length |-> 4 * ((size + 2) \div 3),
                  original_filename |-> filename,
                  file_size |-> size]]

InitUpload ==
  /\ body \in Bodies
  /\ IdleSanitize
  /\ upload = NoUpload
  /\ result = NoResult
  /\ files = {}
  /\ response = NoResponse
  /\ req = NoReq
  /\ call = NoCall

\* the handler on the upload `body`
UploadRequest ==
  /\ call = NoCall
  /\ \E read_ok \in BOOLEAN :
       LET r == encode_sized(body.size, body.filename, body.is_image)
           h == encode_route(read_ok, body.size, r)
       IN  /\ result' = IF h.invoked THEN r ELSE result
           /\ response' = h.response
           /\ call' = [NoCall EXCEPT !.op = "encode", !.invoked = h.invoked,
                                     !.via = EncodeVia(read_ok, h, r)]
  /\ UNCHANGED <<san_in, san_out, upload, files, req, body>>

NextUpload == UploadRequest

SpecUpload == InitUpload /\ [][NextUpload]_vars

(***************************************************************************)
(* Claims.                                                                 *)
(***************************************************************************)

\* C1: every result of encode_image_to_base64 and decode_base64_to_image,
\* on every path including the exception path, has success = true with no
\* error and with data, or success = false with an error and no data.
C1_ResultShape ==
  result # NoResult =>
    /\ result.success => (result.error = None /\ result.data # None)
    /\ ~result.success => (result.error # None /\ result.data = None)

\* C1's case: a decode has ended in the except clause (image.save failed).
C1_Witness ==
  /\ call.op = "decode"
  /\ call.via = "exception"
  /\ ~result.success

\* C2 (as stated): an exception other than a validation failure while
\* handling a request (an I/O failure while saving included) is answered
\* with status 500 and a message without the exception's text; status 400
\* is answered for validation failures only.
C2_InternalErrorIs500 ==
  /\ call.via = "exception" =>
       (response.status = HTTP_500_INTERNAL_SERVER_ERROR /\ response.detail.exc = "")
  /\ response.status = HTTP_400_BAD_REQUEST => call.via = "validation"

\* C3 (as stated): whenever decode returns success = false, for a
\* validation failure or any exception, one raised during image.save
\* included, the set of files in the output directory is as before the call.
C3_FailedDecodeLeavesNothing ==
  (call.op = "decode" /\ ~result.success) => ~call.changed

\* C4 (as stated): the path a successful decode writes to did not exist in
\* the output directory before the write, for any sequence of decode
\* requests, the same file name and format included.
C4_NeverOverwrites ==
  (call.op = "decode" /\ result.success) => ~call.existed

\* C4 (amended): a successful decode writes to a path that did not exist
\* before whenever the identifier it drew occurs in no file name already in
\* the output directory; only a repeated identifier can make it overwrite.
C4_FreshIdNewFile ==
  (call.op = "decode" /\ result.success /\ call.fresh) => ~call.existed

\* C4's case: a second successful decode of the same file name and format
\* drew another identifier and added a second file.
C4_Witness ==
  /\ call.op = "decode"
  /\ result.success
  /\ call.fresh
  /\ Cardinality(files) = 2
  /\ \E f, g \in files :
       /\ f # g
       /\ PathSuffix(f) = PathSuffix(g)
       /\ Take(PathStem(f), Len(PathStem(f)) - UniqueIdLen)
            = Take(PathStem(g), Len(PathStem(g)) - UniqueIdLen)

\* C5: in the encode endpoint an upload whose body, once read, is larger
\* than 10 * 1024 * 1024 bytes is answered with status 413 without the
\* conversion pipeline being invoked; a body of exactly that size or less
\* is passed on to the pipeline.
C5_SizeCap ==
  (call.op = "encode" /\ call.via # "read_error")
  => IF body.size > 10 * 1024 * 1024
     THEN /\ response.status = 413
          /\ ~call.invoked
          /\ result = NoResult
     ELSE /\ call.invoked
          /\ result # NoResult
          /\ response.status \in {200, 400}

\* C5's case: a body of exactly 10 MB has gone through the pipeline.
C5_Witness ==
  /\ call.op = "encode"
  /\ body.size = 10 * 1024 * 1024
  /\ call.invoked
  /\ response.status = 200

\* C6 (as stated): when the supplied file name has a suffix, the file name
\* returned and written keeps that suffix, even if it disagrees with the
\* decoded image's format.
C6_SuppliedSuffixKept ==
  (call.op = "decode" /\ result.success /\ PathSuffix(req.filename) # <<>>)
  => PathSuffix(result.data.filename) = PathSuffix(req.filename)

\* C6 (amended): the file name returned and written always ends with the
\* extension derived from the decoded image's format; a suffix of the
\* supplied file name is removed with the stem, also when it disagrees.
C6_DerivedExtensionWins ==
  (call.op = "decode" /\ result.success)
  => /\ PathSuffix(result.data.filename) = get_extension_from_format(call.format)
     /\ result.data.file_path \in files

\* C6's case: a PNG was decoded under a supplied name ending in .jpg.
C6_Witness ==
  /\ call.op = "decode"
  /\ result.success
  /\ call.format = "PNG"
  /\ PathSuffix(req.filename) = <<".", "j", "p", "g">>

\* C7: for every byte string b that passes the Image Validator under a file
\* name with an allow-listed extension, encode succeeds, the standard Base64
\* decoding of base64_string is exactly b, and file_size is the number of
\* bytes of b.
C7_RoundTrip ==
  (/\ result # NoResult
   /\ upload.filename # NoName
   /\ validate_image_file(upload.content, upload.filename, upload.intact).valid)
  => /\ result.success
     /\ b64decode(result.data.base64_string) =
          [ok |-> TRUE, data |-> upload.content, exc |-> ""]
     /\ result.data.file_size = Len(upload.content)

\* C7's case: a valid image of two bytes, whose Base64 text is padded and
\* longer than the content, has been encoded.
C7_Witness ==
  /\ result # NoResult
  /\ result.success
  /\ Len(upload.content) = 2
  /\ Len(result.data.base64_string) = 4

\* C8 (as stated): sanitize_filename is idempotent for every input string,
\* sanitize(sanitize(x)) = sanitize(x), also for inputs over 100 characters
\* whose name part is leading dots or whose extension is long.
C8_Idempotent ==
  Len(san_out) >= 2 => san_out[2] = san_out[1]

\* the characters the specification lists:  < > : " | ? * \ /
ReservedChars == {"<", ">", ":", "\"", "|", "?", "*", "\\", "/"}

\* C9: for every input string the output of sanitize_filename contains none
\* of the characters < > : " | ? * \ / , whether or not it was truncated.
C9_NoReservedChars ==
  \A k \in 1..Len(san_out) :
    \A i \in 1..Len(san_out[k]) : san_out[k][i] \notin ReservedChars

\* C9's case: an input over the length limit that holds reserved characters
\* has been sanitized and truncated.
C9_Witness ==
  /\ Len(san_out) >= 1
  /\ Len(san_in) > SanitizeLimit
  /\ \E i \in 1..Len(san_in) : san_in[i] \in ReservedChars
  /\ Len(san_out[1]) < Len(san_in)

\* C10: the file a successful decode writes is a direct child of the output
\* directory, whatever file name the caller supplied: the returned filename
\* holds no path separator and file_path is the output directory joined
\* with it.
C10_DirectChild ==
  (call.op = "decode" /\ result.success)
  => /\ ~Contains(result.data.filename, "/")
     /\ ~Contains(result.data.filename, "\\")
     /\ result.data.file_path =
          <<"o", "u", "t", "p", "u", "t", "s", "/">> \o result.data.filename
     /\ result.data.file_path \in files

\* C10's case: a decode under a supplied name with "..", "/" and a
\* backslash has succeeded.
C10_Witness ==
  /\ call.op = "decode"
  /\ result.success
  /\ Contains(req.filename, "/")
  /\ Contains(req.filename, "\\")

\* C11 (as stated): sanitize_filename bounds the length of its output: for
\* every input string the result is at most 100 characters long.
C11_LengthBounded ==
  \A k \in 1..Len(san_out) : Len(san_out[k]) <= 100

====
